---- MODULE Spec2Model ----
(***************************************************************************)
(* A model of new_stock_pusher.py: the scheduler loop NewStockPusher.run,  *)
(* the calendar policy (is_trading_day, is_in_trading_hours), the          *)
(* notification ledger kept in STATUS_FILE (has_pushed_today,              *)
(* update_push_status), and the two external collaborators                 *)
(* (crawl_new_stocks, send_wechat_message) as nondeterministic outcomes.   *)
(*                                                                         *)
(* The clock `now` counts seconds since Monday 2024-12-23 00:00:00.  The   *)
(* program reads the clock with datetime.now(); local computation takes no *)
(* time in the model, the network calls take whole seconds (MaxElapse at   *)
(* most over a run), and time.sleep(s) takes exactly s seconds.  pc names  *)
(* the source line the loop is at; a pc in SleepSites is a time.sleep call *)
(* in progress.                                                            *)
(***************************************************************************)
EXTENDS Integers, Sequences, FiniteSets, TLC

VARIABLES
    argv,            \* the command line of the process
    TEST_MODE,       \* line 13
    WECHAT_WEBHOOK,  \* line 12
    STATUS_FILE,     \* the file named by line 16: [exists, data]
    now,             \* the wall clock, in seconds
    pc,              \* the line run() is at
    stocks,          \* local of run(), line 180
    content,         \* local of run(), line 187
    sleep_seconds,   \* the argument of the time.sleep call in progress
    calls,           \* history: the calls of the current cycle, <<name, result>>
    hist,            \* history: the last failed cycles in a row, MaxFails at most
    deliveries,      \* history: every successful send, [date, st]
    restarts,        \* history: number of process restarts so far
    elapsed          \* history: seconds spent in network calls so far

vars == <<argv, TEST_MODE, WECHAT_WEBHOOK, STATUS_FILE, now, pc, stocks, content,
          sleep_seconds, calls, hist, deliveries, restarts, elapsed>>

----------------------------------------------------------------------------
(* Bounds of the model. *)

MaxDays == 8        \* the clock stops advancing after this many days
MaxElapse == 1      \* seconds the network calls of a run may take in all
MaxItems == 6       \* most .stock-item elements on the fetched page
MaxFails == 3       \* most consecutive failed cycles the environment causes
MaxRestarts == 1    \* most process restarts in a run

Day == 24 * 3600
Horizon == MaxDays * Day

----------------------------------------------------------------------------
(* datetime *)

DayIndex(t) == t \div Day
TimeOfDay(t) == t % Day
hour(t) == TimeOfDay(t) \div 3600
minute(t) == (TimeOfDay(t) % 3600) \div 60
second(t) == TimeOfDay(t) % 60

\* datetime.weekday(): Monday is 0.  Day 0 of the clock is Monday 2024-12-23.
weekday(t) == DayIndex(t) % 7

\* the format '%d': the day of the month alone
strftime_day_only(t) ==
    LET d == 23 + DayIndex(t)
    IN  IF d <= 31 THEN <<d>> ELSE <<d - 31>>

\* strftime('%Y-%m-%d'), as <<year, month, day>>; December 2024 has 31 days.
strftime_date(t) ==
    LET d == 23 + DayIndex(t)
    IN  IF d <= 31 THEN <<2024, 12, d>> ELSE <<2025, 1, d - 31>>

\* strftime('%H:%M:%S')
strftime_time(t) == <<hour(t), minute(t), second(t)>>

\* now.replace(hour=h, minute=m, second=0, microsecond=0)
replace(t, h, m) == DayIndex(t) * Day + h * 3600 + m * 60

\* timedelta(days=1)
timedelta_days(n) == n * Day

\* max(0, x)
max0(x) == IF x > 0 THEN x ELSE 0

----------------------------------------------------------------------------
(* Calendar policy *)

trading_hours == [morning |-> <<9, 30, 11, 30>>, afternoon |-> <<13, 0, 15, 0>>]

\* a weekend on Sunday alone
is_trading_day_six_days(t) ==
    IF TEST_MODE THEN TRUE ELSE weekday(t) <= 5

\* a window whose last minute is left out
in_window_open_end(h, m, w) ==
    /\ (h > w[1] \/ (h = w[1] /\ m >= w[2]))
    /\ (h < w[3] \/ (h = w[3] /\ m < w[4]))

is_trading_day(t) ==
    IF TEST_MODE THEN TRUE ELSE weekday(t) < 5

in_window(h, m, w) ==
    /\ (h > w[1] \/ (h = w[1] /\ m >= w[2]))
    /\ (h < w[3] \/ (h = w[3] /\ m <= w[4]))

is_in_trading_hours(t) ==
    IF TEST_MODE THEN TRUE
    ELSE LET h == hour(t)
             m == minute(t)
             in_morning == in_window(h, m, trading_hours.morning)
             in_afternoon == in_window(h, m, trading_hours.afternoon)
         IN  in_morning \/ in_afternoon

----------------------------------------------------------------------------
(* Notification ledger.  The file holds a sequence of written objects: the  *)
(* empty sequence is an empty file, one dict is what update_push_status     *)
(* writes, anything else does not evaluate to a mapping.                    *)

NoFile == [exists |-> FALSE, data |-> <<>>]

PushStatus(t) ==
    [kind |-> "dict",
     last_pushed_date |-> strftime_date(t),
     last_pushed_time |-> strftime_time(t)]

\* the stored time of day compared with today's date
has_pushed_today_wrong_key(f, t) ==
    IF ~f.exists THEN FALSE
    ELSE IF f.data = <<>> THEN FALSE
    ELSE IF Len(f.data) # 1 THEN FALSE
    ELSE IF f.data[1].kind # "dict" THEN FALSE
    ELSE f.data[1].last_pushed_time = strftime_date(t)

\* the test made by the existence of the file alone
has_pushed_today_by_existence(f, t) == f.exists

\* the handler of line 63 returning True: every failure reads as pushed
has_pushed_today_fail_closed(f, t) ==
    IF ~f.exists THEN TRUE
    ELSE IF f.data = <<>> THEN FALSE
    ELSE IF Len(f.data) # 1 THEN TRUE
    ELSE IF f.data[1].kind # "dict" THEN TRUE
    ELSE f.data[1].last_pushed_date = strftime_date(t)

has_pushed_today(f, t) ==
    IF ~f.exists THEN FALSE                      \* open() raises
    ELSE IF f.data = <<>> THEN FALSE             \* if not data
    ELSE IF Len(f.data) # 1 THEN FALSE           \* eval() raises
    ELSE IF f.data[1].kind # "dict" THEN FALSE   \* eval() or status.get raises
    ELSE f.data[1].last_pushed_date = strftime_date(t)

\* the file as mode 'a' would leave it: the dict is added to what is there
write_status_appending(f, t) ==
    [exists |-> TRUE, data |-> Append(f.data, PushStatus(t))]

\* open(STATUS_FILE, 'w') truncates, then one dict is written
write_status(f, t) == [exists |-> TRUE, data |-> <<PushStatus(t)>>]

----------------------------------------------------------------------------
(* Data source client.  A response is an exception or a page with n         *)
(* .stock-item elements; element i is formatted to the text ItemText[i].    *)

ItemText == <<"s1", "s2", "s3", "s4", "s5", "s6", "s7", "s8">>
NoStocksToday == "no new stocks today"
None == [none |-> TRUE, list |-> <<>>]

Responses ==
    {[raised |-> TRUE, items |-> 0]} \cup
    {[raised |-> FALSE, items |-> n] : n \in {0, 1, MaxItems}}

\* what a response is, for the history of calls
got(resp) ==
    IF resp.raised THEN "raised" ELSE IF resp.items = 0 THEN "items=0" ELSE "items>0"

\* soup.select('.stock-item')[:5]
first5(n) == IF n < 5 THEN n ELSE 5

\* the result without line 94's placeholder: an empty page gives an empty list
crawl_new_stocks_bare(resp) ==
    IF resp.raised THEN None
    ELSE [none |-> FALSE, list |-> [i \in 1..first5(resp.items) |-> ItemText[i]]]

crawl_new_stocks(resp) ==
    IF resp.raised THEN None
    ELSE LET parsed == [i \in 1..first5(resp.items) |-> ItemText[i]]
         IN  [none |-> FALSE,
              list |-> IF parsed # <<>> THEN parsed ELSE <<NoStocksToday>>]

\* Python truth value of the result: None and [] are false
truthy(s) == ~s.none /\ s.list # <<>>

\* '\n'.join([f"{i+1}. {stock}" ...]): the numbered lines
numbered(list) == [i \in 1..Len(list) |-> <<i, list[i]>>]

----------------------------------------------------------------------------
(* Notifier.  A POST ends in a transport exception or in a response whose   *)
(* errcode is 0 or not.                                                     *)

PostOutcomes == {"errcode=0", "errcode#0", "raised"}

\* response.json().get('errcode') == 0, and False on any exception
send_result(outcome) == outcome = "errcode=0"

\* the test of line 101 left out: the request is made whatever the setting
webhook_configured_unchecked(w) == TRUE

\* line 101: not WECHAT_WEBHOOK is false
webhook_configured(w) == w # ""

----------------------------------------------------------------------------
(* Scheduler loop *)

SleepSites == {"L142", "L152", "L176", "L183", "L196", "L199"}
Failed == {"L183", "L199"}

\* a retry after an hour instead of half an hour
hourly_retry_sleep == 60 * 60

\* a poll twice a day on the days that are not trading days
half_day_sleep == 12 * 3600

not_trading_day_sleep == 6 * 3600
fetch_retry_sleep == 30 * 60
push_retry_sleep == 30 * 60
fallback_sleep == 3600

\* the check time without the day added: 08:00 of the same day
next_check_same_day(t) == replace(t, 8, 0)

\* the check time set to 10:00 of the next day
next_check_at_ten(t) == replace(t + timedelta_days(1), 10, 0)

\* lines 149-150 and 194-195
next_check(t) == replace(t + timedelta_days(1), 8, 0)

\* lines 149-152 and 194-196
until_next_check(t) == max0(next_check(t) - t)

\* the wait with the afternoon start left out
until_trading_start_morning_only(t) ==
    LET m_start == replace(t, trading_hours.morning[1], trading_hours.morning[2])
    IN  max0(IF t < m_start THEN m_start - t ELSE fallback_sleep)

\* lines 159-176
until_trading_start(t) ==
    LET m_start == replace(t, trading_hours.morning[1], trading_hours.morning[2])
        a_start == replace(t, trading_hours.afternoon[1], trading_hours.afternoon[2])
        secs == IF t < m_start THEN m_start - t
                ELSE IF t < a_start THEN a_start - t ELSE fallback_sleep
    IN  max0(secs)

\* the ledger test skipped on a trading day
after_trading_day_skipping_ledger(ok) == IF ~ok THEN "L142" ELSE "L156"

\* the ledger written whatever send_wechat_message returned
after_send_always_recording(success) == "L191"

\* the result of the ledger test not looked at
after_has_pushed_ignoring(pushed) == "L156"

\* where run() goes after each test
after_trading_day(ok) == IF ~ok THEN "L142" ELSE "L146"
after_has_pushed(pushed) == IF pushed THEN "L152" ELSE "L156"
after_trading_hours(inside) == IF ~inside THEN "L176" ELSE "L180"
after_crawl(s) == IF ~truthy(s) THEN "L183" ELSE "L187"
after_send(success) == IF success THEN "L191" ELSE "L199"

Bool(b) == IF b THEN "True" ELSE "False"
Slept == <<"time.sleep", "None">>

\* The environment causes, before a cycle that does not fail, a run of at most
\* MaxFails fetch failures or one delivery failure.
CanFailFetch == Len(hist) < MaxFails /\ \A i \in 1..Len(hist) : hist[i].site = "L183"
CanFailPost == hist = <<>>

\* The times of day, <<hour, minute, second>>, at which a process starts.
StartClock ==
    {<<9, 29, 59>>, <<10, 15, 0>>, <<11, 30, 59>>, <<11, 31, 0>>, <<12, 59, 59>>,
     <<15, 0, 59>>, <<15, 1, 0>>, <<23, 59, 59>>}

ClockTimes(days, clocks) ==
    {d * Day + c[1] * 3600 + c[2] * 60 + c[3] : d \in days, c \in clocks}

\* A first start on Friday 2024-12-27, Saturday or Sunday; with the test mode
\* on or no webhook configured, on Saturday at one of two times.
StartTimes == ClockTimes(4..6, StartClock)
FewStartTimes == ClockTimes({5}, {<<10, 15, 0>>, <<23, 59, 59>>})

\* A stopped process is started again at once.
RestartTimes(t) == {t}

\* the name of the script, argv[0] of the source
Program == "new_stock_pusher.py"

Init ==
    /\ argv = <<Program>>
    /\ TEST_MODE \in BOOLEAN
    /\ WECHAT_WEBHOOK \in {"", "https://hook"}
    /\ STATUS_FILE = NoFile
    /\ now \in IF ~TEST_MODE /\ WECHAT_WEBHOOK # "" THEN StartTimes ELSE FewStartTimes
    /\ pc = "L135"
    /\ stocks = None
    /\ content = <<>>
    /\ sleep_seconds = 0
    /\ calls = <<>>
    /\ hist = <<>>
    /\ deliveries = <<>>
    /\ restarts = 0
    /\ elapsed = 0

\* lines 135-177: the tests at the top of a cycle, each made only if the one
\* before it let the loop go on, and the sleep of the test that stops it
Guards ==
    /\ pc = "L135"
    /\ LET ok == is_trading_day(now)
           pushed == has_pushed_today(STATUS_FILE, now)
           inside == is_in_trading_hours(now)
           p1 == after_trading_day(ok)
           p2 == IF p1 = "L146" THEN after_has_pushed(pushed) ELSE p1
           p3 == IF p2 = "L156" THEN after_trading_hours(inside) ELSE p2
           c1 == <<<<"is_trading_day", Bool(ok)>>>>
           c2 == IF p1 = "L146" THEN Append(c1, <<"has_pushed_today", Bool(pushed)>>)
                 ELSE c1
           c3 == IF p2 = "L156" THEN Append(c2, <<"is_in_trading_hours", Bool(inside)>>)
                 ELSE c2
       IN  /\ pc' = p3
           /\ calls' = IF p3 \in SleepSites THEN Append(c3, Slept) ELSE c3
           /\ sleep_seconds' =
                 CASE p3 = "L142" -> not_trading_day_sleep
                   [] p3 = "L152" -> until_next_check(now)
                   [] p3 = "L176" -> until_trading_start(now)
                   [] OTHER -> sleep_seconds
    /\ UNCHANGED <<argv, TEST_MODE, WECHAT_WEBHOOK, STATUS_FILE, now, stocks, content,
                   hist, deliveries, restarts, elapsed>>

\* lines 180-184; the request of line 82 takes e seconds
Crawl ==
    /\ pc = "L180"
    /\ \E e \in 0..(MaxElapse - elapsed), resp \in Responses :
          /\ resp.raised => CanFailFetch
          /\ now' = now + e
          /\ elapsed' = elapsed + e
          /\ stocks' = crawl_new_stocks(resp)
          /\ pc' = after_crawl(stocks')
          /\ LET c == calls \o
                        << <<"requests.get", got(resp)>>,
                           <<"crawl_new_stocks", IF stocks'.none THEN "None" ELSE "list">> >>
             IN  calls' = IF pc' = "L183" THEN Append(c, Slept) ELSE c
          /\ sleep_seconds' = IF pc' = "L183" THEN fetch_retry_sleep ELSE sleep_seconds
    /\ UNCHANGED <<argv, TEST_MODE, WECHAT_WEBHOOK, STATUS_FILE, content, hist,
                   deliveries, restarts>>

\* lines 187-190 and 197-199, with send_wechat_message (lines 99-128); the
\* request of line 113 takes e seconds
Send ==
    /\ pc = "L187"
    /\ content' = numbered(stocks.list)
    /\ \E e \in 0..(MaxElapse - elapsed), outcome \in PostOutcomes :
          LET posted == webhook_configured(WECHAT_WEBHOOK)
              success == posted /\ send_result(outcome)
              c == (IF posted THEN Append(calls, <<"requests.post", outcome>>)
                    ELSE calls) \o <<<<"send_wechat_message", Bool(success)>>>>
          IN  /\ ~posted => e = 0 /\ outcome = "raised"
              /\ posted /\ outcome # "errcode=0" => CanFailPost
              /\ now' = now + e
              /\ elapsed' = elapsed + e
              /\ pc' = after_send(success)
              /\ calls' = IF pc' = "L199" THEN Append(c, Slept) ELSE c
              /\ sleep_seconds' = IF pc' = "L199" THEN push_retry_sleep ELSE sleep_seconds
              /\ deliveries' =
                    IF posted /\ outcome = "errcode=0"
                      THEN Append(deliveries,
                                  [date |-> strftime_date(now'), st |-> "pending"])
                      ELSE deliveries
    /\ UNCHANGED <<argv, TEST_MODE, WECHAT_WEBHOOK, STATUS_FILE, stocks, hist, restarts>>

mark(ds, st) == [ds EXCEPT ![Len(ds)].st = st]

\* line 191, with update_push_status (lines 66-72)
UpdatePushStatus ==
    /\ pc = "L191"
    /\ STATUS_FILE' = write_status(STATUS_FILE, now)
    /\ calls' = Append(calls, <<"update_push_status", "None">>)
    /\ deliveries' = IF deliveries # <<>> /\ deliveries[Len(deliveries)].st = "pending"
                       THEN mark(deliveries, "recorded") ELSE deliveries
    /\ pc' = "L194"
    /\ UNCHANGED <<argv, TEST_MODE, WECHAT_WEBHOOK, now, stocks, content, sleep_seconds,
                   hist, restarts, elapsed>>

\* lines 194-196
SleepUntilNextDay ==
    /\ pc = "L194"
    /\ sleep_seconds' = until_next_check(now)
    /\ calls' = Append(calls, Slept)
    /\ pc' = "L196"
    /\ UNCHANGED <<argv, TEST_MODE, WECHAT_WEBHOOK, STATUS_FILE, now, stocks, content,
                   hist, deliveries, restarts, elapsed>>

called(c, name) == \E i \in 1..Len(c) : c[i][1] = name

\* how a failed cycle is remembered
summary ==
    [site |-> pc, secs |-> sleep_seconds,
     sent |-> called(calls, "send_wechat_message"),
     wrote |-> called(calls, "update_push_status")]

lastN(h, n) == IF Len(h) <= n THEN h ELSE SubSeq(h, Len(h) - n + 1, Len(h))

\* time.sleep returns and the loop is at line 135 again
Wake ==
    /\ pc \in SleepSites
    /\ now + sleep_seconds <= Horizon
    /\ now' = now + sleep_seconds
    /\ pc' = "L135"
    /\ hist' = IF pc \in Failed THEN lastN(Append(hist, summary), MaxFails) ELSE <<>>
    /\ calls' = <<>>
    /\ sleep_seconds' = 0
    /\ stocks' = None
    /\ content' = <<>>
    /\ UNCHANGED <<argv, TEST_MODE, WECHAT_WEBHOOK, STATUS_FILE, deliveries, restarts,
                   elapsed>>

\* The process is stopped, wherever it is, and run() starts again from the
\* top with the persisted STATUS_FILE.
Restart ==
    /\ restarts < MaxRestarts
    /\ restarts' = restarts + 1
    /\ \E t \in RestartTimes(now) : now' = t
    /\ pc' = "L135"
    /\ hist' = <<>>
    /\ calls' = <<>>
    /\ sleep_seconds' = 0
    /\ stocks' = None
    /\ content' = <<>>
    /\ deliveries' = IF deliveries # <<>> /\ deliveries[Len(deliveries)].st = "pending"
                       THEN mark(deliveries, "lost") ELSE deliveries
    /\ UNCHANGED <<argv, TEST_MODE, WECHAT_WEBHOOK, STATUS_FILE, elapsed>>

Next ==
    \/ Guards
    \/ Crawl
    \/ Send
    \/ UpdatePushStatus
    \/ SleepUntilNextDay
    \/ Wake
    \/ Restart

Spec == Init /\ [][Next]_vars

----------------------------------------------------------------------------
(* What the claims speak of, stated without the program's own operators.    *)

DateIndex(t) == t \div (24 * 60 * 60)
ClockSeconds(t) == t - DateIndex(t) * (24 * 60 * 60)
MinuteOfDay(t) == ClockSeconds(t) \div 60
At(h, m, sec) == (h * 60 + m) * 60 + sec

\* date 0 is Monday 2024-12-23
IsWeekday(t) == DateIndex(t) % 7 \in 0..4
InWindows(t) ==
    \/ MinuteOfDay(t) \in (9 * 60 + 30)..(11 * 60 + 30)
    \/ MinuteOfDay(t) \in (13 * 60)..(15 * 60)
EightNextDay(t) == (DateIndex(t) + 1) * (24 * 60 * 60) + At(8, 0, 0)

\* the ledger holds one record and its last_pushed_date is the date of t
LedgerSays(t) ==
    /\ STATUS_FILE.exists
    /\ Len(STATUS_FILE.data) = 1
    /\ STATUS_FILE.data[1].last_pushed_date = strftime_date(t)

Deliveries(d) == {i \in 1..Len(deliveries) : deliveries[i].date = d}
Lost(d) == {i \in Deliveries(d) : deliveries[i].st = "lost"}
Records(d) ==
    {i \in 1..Len(STATUS_FILE.data) : STATUS_FILE.data[i].last_pushed_date = d}
DeliveryDates == {deliveries[i].date : i \in 1..Len(deliveries)}

Has(c, entry) == \E i \in 1..Len(c) : c[i] = entry
Pos(c, name) == CHOOSE i \in 1..Len(c) : c[i][1] = name
AfterGuards == {"L142", "L152", "L176", "L180"}

----------------------------------------------------------------------------
\* C1 as stated: over every sequence of cycles, outcomes and restarts there is
\* at most one successful delivery per calendar date, and the ledger holds at
\* most one record with that date.
C1_OneDeliveryPerDate ==
    \A d \in DeliveryDates :
        /\ Cardinality(Deliveries(d)) <= 1
        /\ Cardinality(Records(d)) <= 1

\* C1 amended: per calendar date there is at most one successful delivery
\* besides those whose ledger write a restart prevented (the process was
\* stopped between the delivery and update_push_status), and the ledger holds
\* at most one record with that date.
C1_OneDeliveryPerDateUnlessLost ==
    \A d \in DeliveryDates :
        /\ Cardinality(Deliveries(d) \ Lost(d)) <= 1
        /\ Cardinality(Deliveries(d)) <= 1 + Cardinality(Lost(d))
        /\ Cardinality(Records(d)) <= 1

\* C1 witness: the process was restarted after a recorded delivery and, on
\* the same date and inside the trading hours, went to sleep as already pushed.
C1_Witness ==
    /\ restarts > 0
    /\ pc = "L152"
    /\ InWindows(now)
    /\ \E i \in Deliveries(strftime_date(now)) : deliveries[i].st = "recorded"
    /\ Cardinality(Deliveries(strftime_date(now))) = 1

----------------------------------------------------------------------------
SentOk == <<"send_wechat_message", "True">>
Wrote == <<"update_push_status", "None">>

\* C2: the ledger is written in a cycle if and only if the notifier returned
\* success in that cycle: the file changes only in the step that follows a
\* successful send, every cycle that has reached its sleep called
\* update_push_status exactly when send_wechat_message returned True, and a
\* cycle whose delivery failed wrote nothing.
C2_Write ==
    STATUS_FILE' # STATUS_FILE =>
        /\ pc = "L191"
        /\ calls # <<>>
        /\ calls[Len(calls)] = SentOk
        /\ calls' = Append(calls, Wrote)

C2_InCycle ==
    /\ pc \in SleepSites => (Has(calls, Wrote) <=> Has(calls, SentOk))
    /\ \A i \in 1..Len(hist) : ~hist[i].wrote

C2_LedgerWrittenIffSuccess == [](C2_InCycle) /\ [][C2_Write]_vars

\* C2 witness: the delivery of the cycle before failed, this cycle's succeeded
\* and the ledger now holds today's record.
C2_Witness ==
    /\ hist # <<>>
    /\ hist[Len(hist)].site = "L199"
    /\ pc = "L196"
    /\ Has(calls, Wrote)
    /\ LedgerSays(now)

\* C3: after a fetch failure or a delivery failure the loop sleeps exactly 1800
\* seconds and then is at the top of a cycle, 1800 seconds later, with the
\* trading-day test as the first call of every cycle; a cycle whose fetch
\* failed calls neither the notifier nor update_push_status; so do three such
\* cycles in a row.
C3_InCycle ==
    /\ pc \in {"L183", "L199"} =>
          /\ sleep_seconds = 1800
          /\ calls[Len(calls)] = Slept
          /\ now + sleep_seconds <= Horizon => ENABLED Wake
    /\ pc = "L183" =>
          /\ ~called(calls, "send_wechat_message")
          /\ ~called(calls, "requests.post")
          /\ ~called(calls, "update_push_status")
    /\ Has(calls, <<"crawl_new_stocks", "None">>) => pc = "L183"
    /\ Has(calls, <<"send_wechat_message", "False">>) => pc = "L199"
    /\ calls # <<>> => calls[1][1] = "is_trading_day"
    /\ \A i \in 1..Len(hist) :
          /\ hist[i].secs = 1800
          /\ hist[i].site = "L183" => ~hist[i].sent /\ ~hist[i].wrote

C3_Retry ==
    (pc \in {"L183", "L199"} /\ pc' # pc /\ restarts' = restarts) =>
        /\ pc' = "L135"
        /\ calls' = <<>>
        /\ now' = now + 1800
        /\ STATUS_FILE' = STATUS_FILE
        /\ deliveries' = deliveries

C3_FailuresRetryAfter30Minutes == [](C3_InCycle) /\ [][C3_Retry]_vars

\* C3 witness: three cycles in a row ended in a fetch failure and the loop is
\* at the top again.
C3_Witness ==
    /\ Len(hist) = 3
    /\ \A i \in 1..3 : hist[i].site = "L183"
    /\ pc = "L135"
    /\ deliveries = <<>>
    /\ STATUS_FILE = NoFile

\* C4: a fetch that finds no listing is not retried: the loop goes on with the
\* one placeholder item, the notifier gets the one numbered placeholder line,
\* and after a successful delivery the ledger holds today's record and the
\* sleep ends at 08:00 of the next day.
C4_NoListingsIsSuccess ==
    Has(calls, <<"requests.get", "items=0">>) =>
        /\ pc # "L183"
        /\ stocks = [none |-> FALSE, list |-> <<NoStocksToday>>]
        /\ called(calls, "send_wechat_message") => content = <<<<1, NoStocksToday>>>>
        /\ pc \in SleepSites => called(calls, "send_wechat_message")
        /\ pc = "L196" =>
              /\ Has(calls, SentOk)
              /\ LedgerSays(now)
              /\ now + sleep_seconds = EightNextDay(now)

\* C4 witness: no listing was found, the placeholder was delivered and the
\* loop sleeps until the next day.
C4_Witness ==
    /\ Has(calls, <<"requests.get", "items=0">>)
    /\ pc = "L196"

\* C5: after a successful delivery update_push_status is the next call and
\* time.sleep the one after it; when the sleep begins the ledger holds the
\* record of the delivery's date, and the sleep ends at 08:00:00 of the day
\* after the delivery.
C5_WriteThenSleep ==
    /\ \A i \in 1..Len(calls) :
          /\ calls[i] = SentOk /\ i < Len(calls) => calls[i + 1] = Wrote
          /\ calls[i] = Wrote /\ i < Len(calls) => calls[i + 1] = Slept
          /\ calls[i] = Wrote => i > 1 /\ calls[i - 1] = SentOk
          /\ calls[i] = Slept => i = Len(calls)
    /\ pc = "L191" => calls[Len(calls)] = SentOk
    /\ pc = "L194" => calls[Len(calls)] = Wrote
    /\ pc = "L196" =>
          LET last == deliveries[Len(deliveries)]
          IN  /\ Has(calls, Wrote)
              /\ last.st = "recorded"
              /\ last.date = strftime_date(now)
              /\ Cardinality(Records(last.date)) = 1
              /\ sleep_seconds > 0
              /\ now + sleep_seconds = EightNextDay(now)

\* C5 witness: a delivery that succeeded one second before midnight is
\* recorded and the loop sleeps until 08:00 of the next day.
C5_Witness ==
    /\ pc = "L196"
    /\ ClockSeconds(now) = At(23, 59, 59)
    /\ LedgerSays(now)

\* C6: a cycle that starts on a trading day with the ledger's date equal to
\* today's ends in the already-pushed sleep; that cycle calls only the two
\* tests, and its sleep is not negative and ends at 08:00:00 of the next day,
\* when has_pushed_today is false.
C6_AlreadyPushedSleepsUntilNextDay ==
    /\ pc \in AfterGuards /\ (TEST_MODE \/ IsWeekday(now)) /\ LedgerSays(now)
          => pc = "L152"
    /\ pc = "L152" =>
          /\ calls = << <<"is_trading_day", "True">>, <<"has_pushed_today", "True">>,
                        Slept >>
          /\ LedgerSays(now)
          /\ sleep_seconds >= 0
          /\ now + sleep_seconds = EightNextDay(now)
          /\ ~LedgerSays(now + sleep_seconds)
          /\ ~has_pushed_today(STATUS_FILE, now + sleep_seconds)

\* C6 witness: with the test mode off, a cycle inside the trading hours of a
\* day already pushed sleeps as already pushed.
C6_Witness ==
    /\ ~TEST_MODE
    /\ pc = "L152"
    /\ InWindows(now)

\* C7: the tests are made in the order trading day, ledger, trading hours: a
\* cycle that calls the data source has called them in that order with the
\* results true, false, true, and the three hold of the moment of the tests;
\* the notifier is called only after a fetch that returned a list; on a
\* non-trading day the loop calls neither of the other two tests and sleeps 6
\* hours.
C7_GuardOrder ==
    /\ called(calls, "requests.get") \/ pc = "L180" =>
          /\ Len(calls) >= 3
          /\ calls[1] = <<"is_trading_day", "True">>
          /\ calls[2] = <<"has_pushed_today", "False">>
          /\ calls[3] = <<"is_in_trading_hours", "True">>
          /\ Len(calls) > 3 => calls[4][1] = "requests.get"
    /\ pc = "L180" =>
          /\ TEST_MODE \/ IsWeekday(now)
          /\ ~LedgerSays(now)
          /\ TEST_MODE \/ InWindows(now)
    /\ called(calls, "send_wechat_message") =>
          /\ Has(calls, <<"crawl_new_stocks", "list">>)
          /\ Pos(calls, "crawl_new_stocks") < Pos(calls, "send_wechat_message")
    /\ pc = "L142" =>
          /\ calls = << <<"is_trading_day", "False">>, Slept >>
          /\ sleep_seconds = 6 * 60 * 60
          /\ ~TEST_MODE /\ ~IsWeekday(now)

\* C7 witness: with the test mode off, the notifier is called in a cycle whose
\* three tests passed.
C7_Witness ==
    /\ ~TEST_MODE
    /\ Has(calls, SentOk)
    /\ InWindows(now)

\* C8: outside the trading hours of a trading day not yet pushed, the sleep is
\* the time to 09:30:00 if it is earlier than that, else the time to 13:00:00
\* if it is earlier than that, else 3600 seconds; it is never negative, and a
\* sleep toward 09:30 or 13:00 ends inside the trading hours.
C8_SleepUntilWindow ==
    pc = "L176" =>
        LET c == ClockSeconds(now)
        IN  /\ ~TEST_MODE /\ IsWeekday(now) /\ ~LedgerSays(now) /\ ~InWindows(now)
            /\ sleep_seconds >= 0
            /\ sleep_seconds = IF c < At(9, 30, 0) THEN At(9, 30, 0) - c
                               ELSE IF c < At(13, 0, 0) THEN At(13, 0, 0) - c
                               ELSE 3600
            /\ c < At(13, 0, 0) =>
                  /\ InWindows(now + sleep_seconds)
                  /\ is_in_trading_hours(now + sleep_seconds)
                  /\ ClockSeconds(now + sleep_seconds) \in {At(9, 30, 0), At(13, 0, 0)}

\* C8 witness: between the two windows the loop sleeps until 13:00:00.
C8_Witness ==
    /\ pc = "L176"
    /\ ClockSeconds(now) = At(11, 31, 0)
    /\ sleep_seconds = At(13, 0, 0) - At(11, 31, 0)

----------------------------------------------------------------------------
(* The calendar policy on its own: the tests at the top of one cycle, made  *)
(* at every minute of Friday 2024-12-27, in its first and in its last       *)
(* second, with the test mode off and on.                                   *)

InitHours ==
    /\ argv = <<Program>>
    /\ TEST_MODE \in BOOLEAN
    /\ WECHAT_WEBHOOK = "https://hook"
    /\ STATUS_FILE = NoFile
    /\ now \in {4 * Day + At(h, m, sec) : h \in 0..23, m \in 0..59, sec \in {0, 59}}
    /\ pc = "L135"
    /\ stocks = None
    /\ content = <<>>
    /\ sleep_seconds = 0
    /\ calls = <<>>
    /\ hist = <<>>
    /\ deliveries = <<>>
    /\ restarts = 0
    /\ elapsed = 0

SpecHours == InitHours /\ [][Guards]_vars

\* C9: with the test mode off the trading-hours test passes exactly at the
\* times whose hour and minute lie in 09:30..11:30 or 13:00..15:00, ends
\* included: it passes at 09:30, 11:30, 13:00 and 15:00 and fails at 09:29,
\* 11:31, 12:59 and 15:01; with the test mode on it passes at every time.
C9_TradingHours ==
    pc # "L135" =>
        LET c == MinuteOfDay(now)
        IN  /\ pc \in {"L176", "L180"}
            /\ (pc = "L180") = (TEST_MODE \/ InWindows(now))
            /\ Has(calls, <<"is_in_trading_hours", Bool(TEST_MODE \/ InWindows(now))>>)
            /\ ~TEST_MODE /\ c \in {9 * 60 + 30, 11 * 60 + 30, 13 * 60, 15 * 60}
                  => pc = "L180"
            /\ ~TEST_MODE /\ c \in {9 * 60 + 29, 11 * 60 + 31, 12 * 60 + 59, 15 * 60 + 1}
                  => pc = "L176"
            /\ TEST_MODE => pc = "L180"

\* C9 witness: with the test mode off the test passes in the last second of
\* 11:30.
C9_Witness ==
    /\ ~TEST_MODE
    /\ pc = "L180"
    /\ ClockSeconds(now) = At(11, 30, 59)

----------------------------------------------------------------------------
(* One cycle from a start on any day of the week of Monday 2024-12-23, with *)
(* no ledger or with the ledger an earlier process left on the day before   *)
(* or on the same day.                                                      *)

EarlierLedger(t) ==
    {NoFile, write_status(NoFile, t - Day), write_status(NoFile, replace(t, 0, 0))}

InitCycle ==
    /\ argv = <<Program>>
    /\ TEST_MODE \in BOOLEAN
    /\ WECHAT_WEBHOOK = "https://hook"
    /\ now \in ClockTimes(0..6, StartClock)
    /\ STATUS_FILE \in EarlierLedger(now)
    /\ pc = "L135"
    /\ stocks = None
    /\ content = <<>>
    /\ sleep_seconds = 0
    /\ calls = <<>>
    /\ hist = <<>>
    /\ deliveries = <<>>
    /\ restarts = 0
    /\ elapsed = 0

NextCycle ==
    \/ Guards
    \/ Crawl
    \/ Send
    \/ UpdatePushStatus
    \/ SleepUntilNextDay

SpecCycle == InitCycle /\ [][NextCycle]_vars

\* C10: with the test mode off the trading-day test passes from Monday to
\* Friday and fails on Saturday and Sunday; with the test mode on it passes on
\* every day, so that the data source and the notifier are called on a weekend
\* too, unless the ledger holds today's date.
C10_TradingDay ==
    /\ calls # <<>> =>
          calls[1] = <<"is_trading_day",
                       Bool(TEST_MODE \/ strftime_date(now - elapsed)[3] \in 23..27)>>
    /\ pc \in AfterGuards =>
          /\ (pc = "L142") = (~TEST_MODE /\ strftime_date(now)[3] \in {28, 29})
          /\ (pc # "L142") = (TEST_MODE \/ strftime_date(now)[3] \in 23..27)
          /\ TEST_MODE /\ LedgerSays(now) => pc = "L152"
          /\ TEST_MODE /\ ~LedgerSays(now) => pc = "L180"

\* C10 witness: with the test mode on, a notification is delivered and
\* recorded on Sunday 2024-12-29.
C10_Witness ==
    /\ TEST_MODE
    /\ strftime_date(now) = <<2024, 12, 29>>
    /\ Has(calls, SentOk)
    /\ LedgerSays(now)

----------------------------------------------------------------------------
(* The ledger on its own: has_pushed_today and update_push_status called in *)
(* any order at times of 2024-12-27, 12-28, 12-31, 2025-01-01 and 01-31,    *)
(* from a store that is absent, empty, corrupt or left by an earlier run.   *)
(* Here pc is the line of the last call and hist the time of the last       *)
(* update_push_status.                                                      *)

\* what eval() gives for text that is no dict: a list, or a dict without the
\* key (status.get then returns ''); Truncated is text eval() cannot parse
NotADict == [kind |-> "list", last_pushed_date |-> <<>>, last_pushed_time |-> <<>>]
DictNoKey == [kind |-> "dict", last_pushed_date |-> <<>>, last_pushed_time |-> <<>>]
Truncated == [kind |-> "text", last_pushed_date |-> <<>>, last_pushed_time |-> <<>>]

LedgerTimes == ClockTimes({4, 5, 8, 9, 39}, {<<0, 0, 0>>, <<10, 15, 0>>, <<23, 59, 59>>})

InitStores ==
    {NoFile,
     [exists |-> TRUE, data |-> <<>>],
     [exists |-> TRUE, data |-> <<NotADict>>],
     [exists |-> TRUE, data |-> <<DictNoKey>>],
     [exists |-> TRUE, data |-> <<Truncated>>],
     [exists |-> TRUE, data |-> <<PushStatus(4 * Day), PushStatus(5 * Day)>>],
     write_status(NoFile, 4 * Day + 3600),
     write_status(NoFile, 39 * Day + 3600)}

InitLedger ==
    /\ argv = <<Program>>
    /\ TEST_MODE \in BOOLEAN
    /\ WECHAT_WEBHOOK = "https://hook"
    /\ STATUS_FILE \in InitStores
    /\ now \in LedgerTimes
    /\ pc = "L135"
    /\ stocks = None
    /\ content = <<>>
    /\ sleep_seconds = 0
    /\ calls = <<>>
    /\ hist = <<>>
    /\ deliveries = <<>>
    /\ restarts = 0
    /\ elapsed = 0

\* lines 53-64, called at time t
CallHasPushedToday ==
    \E t \in LedgerTimes :
        /\ now' = t
        /\ pc' = "L146"
        /\ calls' = <<<<"has_pushed_today", Bool(has_pushed_today(STATUS_FILE, t))>>>>
        /\ UNCHANGED <<argv, TEST_MODE, WECHAT_WEBHOOK, STATUS_FILE, stocks, content,
                       sleep_seconds, hist, deliveries, restarts, elapsed>>

\* lines 66-72, called at time t
CallUpdatePushStatus ==
    \E t \in LedgerTimes :
        /\ now' = t
        /\ pc' = "L191"
        /\ STATUS_FILE' = write_status(STATUS_FILE, t)
        /\ calls' = <<<<"update_push_status", "None">>>>
        /\ hist' = <<t>>
        /\ UNCHANGED <<argv, TEST_MODE, WECHAT_WEBHOOK, stocks, content, sleep_seconds,
                       deliveries, restarts, elapsed>>

NextLedger ==
    \/ CallHasPushedToday
    \/ CallUpdatePushStatus

SpecLedger == InitLedger /\ [][NextLedger]_vars

\* C11: after update_push_status at time t, has_pushed_today at a time of the
\* same calendar date as t returns true and at a time of any other date
\* false; after every update_push_status the store holds one record, the one
\* of that call.
C11_LedgerRoundTrip ==
    hist # <<>> =>
        /\ Len(STATUS_FILE.data) = 1
        /\ STATUS_FILE.data[1].last_pushed_date = strftime_date(hist[1])
        /\ pc = "L146" =>
              calls = <<<<"has_pushed_today", Bool(DateIndex(now) = DateIndex(hist[1]))>>>>
        /\ pc = "L191" => now = hist[1]

\* C11 witness: a record written on 2024-12-31 is asked for on 2025-01-31, the
\* same day of another month, and the answer is false.
C11_Witness ==
    /\ hist # <<>>
    /\ DateIndex(hist[1]) = 8
    /\ DateIndex(now) = 39
    /\ calls = <<<<"has_pushed_today", "False">>>>

CorruptStores ==
    {NoFile,
     [exists |-> TRUE, data |-> <<>>],
     [exists |-> TRUE, data |-> <<NotADict>>],
     [exists |-> TRUE, data |-> <<DictNoKey>>],
     [exists |-> TRUE, data |-> <<Truncated>>],
     [exists |-> TRUE, data |-> <<PushStatus(4 * Day), PushStatus(5 * Day)>>]}

\* C12: with the store absent, empty, not a mapping, without the key or not
\* parsable, has_pushed_today returns False at every time (it returns, never
\* raises), and a call of has_pushed_today leaves the store as it was.
C12_Answer ==
    STATUS_FILE \in CorruptStores /\ pc = "L146" =>
        calls = <<<<"has_pushed_today", "False">>>>

C12_Read ==
    pc' = "L146" => STATUS_FILE' = STATUS_FILE

----------------------------------------------------------------------------
(* The loop with a ledger write that can fail.  open(STATUS_FILE, 'w') or   *)
(* the write raises OSError; nothing in update_push_status, run() or        *)
(* __main__ catches it, so the process ends at pc = "exit".  A failed open  *)
(* leaves the file as it was, a failed write leaves it truncated, empty or  *)
(* with a part of the text.                                                 *)

failed_write(f) ==
    {f, [exists |-> TRUE, data |-> <<>>], [exists |-> TRUE, data |-> <<Truncated>>]}

\* the error caught and logged: the loop goes on to line 194
after_update_push_status_swallowing(raised) == "L194"

\* an exception of line 191 leaves run()
after_update_push_status(raised) == IF raised THEN "exit" ELSE "L194"

\* a start at 10:15 of the last day of the run, a Monday or a Tuesday
CrashTimes == ClockTimes({MaxDays - 1}, {<<10, 15, 0>>})

InitCrash ==
    /\ argv = <<Program>>
    /\ TEST_MODE \in BOOLEAN
    /\ WECHAT_WEBHOOK = "https://hook"
    /\ now \in CrashTimes
    /\ STATUS_FILE \in {NoFile, write_status(NoFile, now - Day)}
    /\ pc = "L135"
    /\ stocks = None
    /\ content = <<>>
    /\ sleep_seconds = 0
    /\ calls = <<>>
    /\ hist = <<>>
    /\ deliveries = <<>>
    /\ restarts = 0
    /\ elapsed = 0

\* line 191, with update_push_status (lines 66-72) returning or raising
UpdatePushStatusOrRaise ==
    /\ pc = "L191"
    /\ \E raised \in BOOLEAN :
          /\ pc' = after_update_push_status(raised)
          /\ IF raised THEN STATUS_FILE' \in failed_write(STATUS_FILE)
                       ELSE STATUS_FILE' = write_status(STATUS_FILE, now)
          /\ calls' = Append(calls, <<"update_push_status",
                                      IF raised THEN "raised" ELSE "None">>)
          /\ deliveries' =
                IF deliveries # <<>> /\ deliveries[Len(deliveries)].st = "pending"
                  THEN mark(deliveries, IF raised THEN "failed" ELSE "recorded")
                  ELSE deliveries
    /\ UNCHANGED <<argv, TEST_MODE, WECHAT_WEBHOOK, now, stocks, content, sleep_seconds,
                   hist, restarts, elapsed>>

NextCrash ==
    \/ Guards
    \/ Crawl
    \/ Send
    \/ UpdatePushStatusOrRaise
    \/ SleepUntilNextDay
    \/ Wake
    \/ Restart

SpecCrash == InitCrash /\ [][NextCrash]_vars

WriteRaised == <<"update_push_status", "raised">>
Unrecorded == {"failed", "lost"}

\* C13: when update_push_status raises after a successful delivery the process
\* ends: the raising call is the last call of the cycle, no sleep follows it,
\* the loop takes no further step (only a new process does), and the delivery
\* is not marked as recorded.
C13_WriteFailureEndsProcess ==
    /\ Has(calls, WriteRaised) =>
          /\ pc = "exit"
          /\ calls[Len(calls)] = WriteRaised
          /\ calls[Len(calls) - 1] = SentOk
          /\ deliveries[Len(deliveries)].st = "failed"
    /\ pc = "exit" =>
          /\ Has(calls, WriteRaised)
          /\ ~ENABLED Guards
          /\ ~ENABLED Crawl
          /\ ~ENABLED Send
          /\ ~ENABLED UpdatePushStatusOrRaise
          /\ ~ENABLED SleepUntilNextDay
          /\ ~ENABLED Wake

\* C13 witness: the first process has ended on a failed write that left the
\* file truncated.
C13_Witness ==
    /\ pc = "exit"
    /\ restarts = 0
    /\ STATUS_FILE = [exists |-> TRUE, data |-> <<>>]

\* C18: a delivery whose ledger write failed, or was prevented by the stop of
\* the process, leaves the ledger without today's record; the process started
\* again on that date, inside the trading hours, passes the three tests and
\* goes on to fetch; a date has more deliveries than one only when all but the
\* last of them are unrecorded.
C18_UnrecordedIsSentAgain ==
    /\ \A i \in 1..Len(deliveries) :
          /\ deliveries[i].st \in Unrecorded /\ i = Len(deliveries)
             /\ deliveries[i].date = strftime_date(now)
                => ~LedgerSays(now) /\ ~has_pushed_today(STATUS_FILE, now)
          /\ i < Len(deliveries) /\ deliveries[i].date = deliveries[i + 1].date
                => deliveries[i].st \in Unrecorded
    /\ (/\ deliveries # <<>>
        /\ deliveries[Len(deliveries)].st \in Unrecorded
        /\ deliveries[Len(deliveries)].date = strftime_date(now)
        /\ pc \in AfterGuards
        /\ TEST_MODE \/ (IsWeekday(now) /\ InWindows(now)))
          => pc = "L180"

\* C18 witness: two deliveries on one date, inside the trading hours with the
\* test mode off: the write of the first failed, the second was made by the
\* process started again.
C18_Witness ==
    /\ ~TEST_MODE
    /\ Len(deliveries) = 2
    /\ deliveries[1].date = deliveries[2].date
    /\ deliveries[1].st = "failed"
    /\ deliveries[2].st = "recorded"
    /\ restarts = 1
    /\ InWindows(now)

----------------------------------------------------------------------------
\* C14: with no webhook configured, send_wechat_message returns False without
\* a request being made; every cycle that reaches the send ends in the sleep
\* of 1800 seconds with the ledger not written, the loop always has a next
\* step, and no delivery and no record ever exist.
C14_NoWebhookRetriesForever ==
    WECHAT_WEBHOOK = "" =>
        /\ STATUS_FILE = NoFile
        /\ deliveries = <<>>
        /\ ~called(calls, "requests.post")
        /\ ~called(calls, "update_push_status")
        /\ ~Has(calls, SentOk)
        /\ pc \notin {"L191", "L194", "L196"}
        /\ called(calls, "send_wechat_message") =>
              /\ pc = "L199"
              /\ sleep_seconds = 1800
              /\ calls[Len(calls)] = Slept
              /\ calls[Len(calls) - 1] = <<"send_wechat_message", "False">>
        /\ \A i \in 1..Len(hist) :
              hist[i].sent => hist[i].site = "L199" /\ hist[i].secs = 1800 /\ ~hist[i].wrote
        /\ pc = "L135" => ENABLED Guards
        /\ pc = "L180" => ENABLED Crawl
        /\ pc = "L187" => ENABLED Send
        /\ pc \in SleepSites /\ now + sleep_seconds <= Horizon => ENABLED Wake

\* C14 witness: with no webhook, three cycles in a row have ended in a failed
\* send and the fourth has too.
C14_Witness ==
    /\ WECHAT_WEBHOOK = ""
    /\ Len(hist) >= 3
    /\ \A i \in 1..Len(hist) : hist[i].site = "L199"
    /\ pc = "L199"

----------------------------------------------------------------------------
(* The entry point, lines 201-210.  The names the module has bound are those *)
(* of lines 1-6; os is the standard module, which has no attribute argv.     *)
(* An exception nothing catches ends the process at pc = "exit" (status 1);  *)
(* sys.exit(0) would end it at pc = "exit0".                                 *)

imported == {"os", "time", "logging", "requests", "datetime", "timedelta",
             "BeautifulSoup"}
os_attributes == {"getenv", "path", "remove"}

CommandLines ==
    {<<Program>>, <<Program, "clear">>, <<Program, "run">>,
     <<Program, "clear", "now">>, <<Program, "run", "clear">>}

InitMain ==
    /\ argv \in CommandLines
    /\ TEST_MODE \in BOOLEAN
    /\ WECHAT_WEBHOOK \in {"", "https://hook"}
    /\ STATUS_FILE \in InitStores
    /\ now = 4 * Day + At(10, 15, 0)
    /\ pc = "L203"
    /\ stocks = None
    /\ content = <<>>
    /\ sleep_seconds = 0
    /\ calls = <<>>
    /\ hist = <<>>
    /\ deliveries = <<>>
    /\ restarts = 0
    /\ elapsed = 0

\* lines 203-210; argv[1] of the source is argv[2] here
Main ==
    /\ pc = "L203"
    /\ IF "argv" \notin os_attributes
         THEN \* line 203: os.argv raises AttributeError
              /\ pc' = "exit"
              /\ calls' = <<<<"os.argv", "AttributeError">>>>
              /\ UNCHANGED STATUS_FILE
         ELSE IF Len(argv) > 1 /\ argv[2] = "clear"
         THEN \* lines 204-207
              /\ STATUS_FILE' = IF STATUS_FILE.exists THEN NoFile ELSE STATUS_FILE
              /\ pc' = IF "sys" \in imported THEN "exit0" ELSE "exit"
              /\ calls' = <<<<"sys.exit", IF "sys" \in imported THEN "0" ELSE "NameError">>>>
         ELSE \* lines 209-210
              /\ pc' = "L135"
              /\ calls' = <<>>
              /\ UNCHANGED STATUS_FILE
    /\ UNCHANGED <<argv, TEST_MODE, WECHAT_WEBHOOK, now, stocks, content,
                   sleep_seconds, hist, deliveries, restarts, elapsed>>

SpecMain == InitMain /\ [][Main]_vars

\* C15: started with the one argument clear, the program removes the ledger
\* file if there is one and ends with status 0 without entering the loop;
\* started in any other way it enters the loop.
C15_EntryPoint ==
    pc # "L203" =>
        IF argv = <<Program, "clear">>
          THEN pc = "exit0" /\ ~STATUS_FILE.exists
          ELSE pc = "L135"

----------------------------------------------------------------------------
(* The loop in a healthy environment: the test mode off, every fetch and    *)
(* every delivery succeeds, the ledger is written, every sleep lasts what   *)
(* was computed, and the process is never stopped.  A start on Thursday     *)
(* 2024-12-26 or one of the three days after it, with no ledger or with the *)
(* ledger an earlier process left.                                          *)

HealthyStarts == ClockTimes(3..6, StartClock)

InitHealthy ==
    /\ argv = <<Program>>
    /\ TEST_MODE = FALSE
    /\ WECHAT_WEBHOOK = "https://hook"
    /\ now \in HealthyStarts
    /\ STATUS_FILE \in EarlierLedger(now)
    /\ pc = "L135"
    /\ stocks = None
    /\ content = <<>>
    /\ sleep_seconds = 0
    /\ calls = <<>>
    /\ hist = <<>>
    /\ deliveries = <<>>
    /\ restarts = 0
    /\ elapsed = 0

\* crawl_new_stocks returns a list
CrawlOk == Crawl /\ pc' = "L187"

\* send_wechat_message returns True
SendOk == Send /\ pc' = "L191"

NextHealthy ==
    \/ Guards
    \/ CrawlOk
    \/ SendOk
    \/ UpdatePushStatus
    \/ SleepUntilNextDay
    \/ Wake

SpecHealthy == InitHealthy /\ [][NextHealthy]_vars /\ WF_vars(NextHealthy)

\* the days after the day of t0 that are weekdays and begin before the horizon
LaterWeekdays(t0) == {d \in (DateIndex(t0) + 1)..(MaxDays - 1) : d % 7 \in 0..4}
OpensAt(d) == d * (24 * 60 * 60) + At(9, 30, 0)
DeliveredOn(d) ==
    {i \in 1..Len(deliveries) : deliveries[i].date = strftime_date(d * (24 * 60 * 60))}

C16_Day(t0) ==
    \A d \in LaterWeekdays(t0) :
        /\ Cardinality(DeliveredOn(d)) <= 1
        /\ DateIndex(now) = d /\ pc \in {"L180", "L187", "L191"} =>
              /\ now >= OpensAt(d)
              /\ now <= OpensAt(d) + elapsed
              /\ calls[1] = <<"is_trading_day", "True">>
        /\ DateIndex(now) = d /\ pc = "L191" => Cardinality(DeliveredOn(d)) = 1
        /\ now > OpensAt(d) + MaxElapse => Cardinality(DeliveredOn(d)) = 1
        /\ now < OpensAt(d) => DeliveredOn(d) = {}

\* C16: with the test mode off and a healthy environment, from every start
\* time, every later weekday gets exactly one delivery: none before 09:30:00
\* of that day, one made by the cycle that begins at 09:30:00 (the delivery
\* is made within the time the two requests take), none after it; and the
\* delivery of each such day is eventually made.
C16_HealthyDelivery ==
    \A t0 \in HealthyStarts :
        (now = t0) =>
            /\ [](C16_Day(t0))
            /\ \A d \in LaterWeekdays(t0) : <>(Cardinality(DeliveredOn(d)) = 1)

\* C16 witness: after a start on Saturday, the delivery of Monday 2024-12-30
\* is being recorded at 09:30.
C16_Witness ==
    /\ pc = "L191"
    /\ strftime_date(now) = <<2024, 12, 30>>
    /\ MinuteOfDay(now) = 9 * 60 + 30
    /\ Len(deliveries) = 1

----------------------------------------------------------------------------
\* the starts of a trading window, 09:30:00 and 13:00:00 of a weekday, that lie
\* strictly inside the sleep in progress and on a date the ledger has no
\* record of
SkippedStarts ==
    {w \in {d * (24 * 60 * 60) + c :
               d \in DateIndex(now)..DateIndex(now + sleep_seconds),
               c \in {At(9, 30, 0), At(13, 0, 0)}} :
        /\ IsWeekday(w)
        /\ now < w
        /\ w < now + sleep_seconds
        /\ ~LedgerSays(w)}

C17_Weekend ==
    pc = "L142" /\ DateIndex(now + sleep_seconds) % 7 = 0 =>
        ClockSeconds(now + sleep_seconds) < At(9, 30, 0)

\* C17 as stated: no sleep of the loop has the start of a trading window of a
\* weekday without a ledger record strictly inside it, and the 6-hour sleep
\* that ends on a Monday ends before 09:30.
C17_NoSleepSkipsWindowStart ==
    /\ pc \in SleepSites => SkippedStarts = {}
    /\ C17_Weekend

\* C17 amended: with the test mode off, no sleep of the loop has the start of
\* a trading window of a weekday without a ledger record strictly inside it,
\* and the 6-hour sleep that ends on a Monday ends before 09:30.
C17_NoSleepSkipsWindowStartTestModeOff ==
    /\ ~TEST_MODE /\ pc \in SleepSites => SkippedStarts = {}
    /\ C17_Weekend

\* C17 witness: with the test mode off, a 6-hour sleep begun on Sunday ends on
\* Monday before 09:30.
C17_Witness ==
    /\ ~TEST_MODE
    /\ pc = "L142"
    /\ DateIndex(now) % 7 = 6
    /\ DateIndex(now + sleep_seconds) % 7 = 0

----------------------------------------------------------------------------
(* Instances of the loop run at once against the one STATUS_FILE: one cycle *)
(* of each, their steps interleaved.  Nothing in has_pushed_today or        *)
(* update_push_status locks the file, and open(STATUS_FILE, 'w') empties    *)
(* the file before the text is written, so another instance can read it     *)
(* empty.  Here pc, stocks, content, sleep_seconds, calls and hist are      *)
(* functions of the instance; pc is "off" for an instance that was not      *)
(* started and "L69" inside update_push_status, between open and write;     *)
(* hist[p] is what was the case when instance p made its ledger test: the   *)
(* number of recorded deliveries, and whether a write was in progress.      *)

MaxInstances == 2
Instances == 1..MaxInstances
Running == {p \in Instances : pc[p] # "off"}
Recorded == {i \in 1..Len(deliveries) : deliveries[i].st = "recorded"}
Writing == {p \in Instances : pc[p] = "L69"}

InitInstances ==
    /\ argv = <<Program>>
    /\ TEST_MODE \in BOOLEAN
    /\ WECHAT_WEBHOOK = "https://hook"
    /\ now \in ClockTimes({4, 5}, {<<10, 15, 0>>, <<15, 1, 0>>})
    /\ STATUS_FILE \in EarlierLedger(now)
    /\ pc \in [Instances -> {"L135", "off"}]
    /\ pc[1] = "L135"
    /\ stocks = [p \in Instances |-> None]
    /\ content = [p \in Instances |-> <<>>]
    /\ sleep_seconds = [p \in Instances |-> 0]
    /\ calls = [p \in Instances |-> <<>>]
    /\ hist = [p \in Instances |-> [recorded |-> 0, writing |-> FALSE]]
    /\ deliveries = <<>>
    /\ restarts = 0
    /\ elapsed = 0

\* lines 135-177 in instance p
InstanceGuards(p) ==
    /\ pc[p] = "L135"
    /\ LET ok == is_trading_day(now)
           pushed == has_pushed_today(STATUS_FILE, now)
           inside == is_in_trading_hours(now)
           p1 == after_trading_day(ok)
           p2 == IF p1 = "L146" THEN after_has_pushed(pushed) ELSE p1
           p3 == IF p2 = "L156" THEN after_trading_hours(inside) ELSE p2
       IN  /\ pc' = [pc EXCEPT ![p] = p3]
           /\ calls' = [calls EXCEPT ![p] =
                           <<<<"is_trading_day", Bool(ok)>>>> \o
                           (IF p1 = "L146" THEN <<<<"has_pushed_today", Bool(pushed)>>>>
                            ELSE <<>>)]
           /\ sleep_seconds' = [sleep_seconds EXCEPT ![p] =
                 CASE p3 = "L142" -> not_trading_day_sleep
                   [] p3 = "L152" -> until_next_check(now)
                   [] p3 = "L176" -> until_trading_start(now)
                   [] OTHER -> 0]
           /\ hist' = [hist EXCEPT ![p] = [recorded |-> Cardinality(Recorded),
                                           writing |-> Writing # {}]]
    /\ UNCHANGED <<argv, TEST_MODE, WECHAT_WEBHOOK, STATUS_FILE, now, stocks, content,
                   deliveries, restarts, elapsed>>

\* lines 180-184 in instance p
InstanceCrawl(p) ==
    /\ pc[p] = "L180"
    /\ \E resp \in Responses :
          /\ stocks' = [stocks EXCEPT ![p] = crawl_new_stocks(resp)]
          /\ pc' = [pc EXCEPT ![p] = after_crawl(stocks'[p])]
          /\ calls' = [calls EXCEPT ![p] = Append(@, <<"requests.get", got(resp)>>)]
          /\ sleep_seconds' = [sleep_seconds EXCEPT ![p] =
                                  IF pc'[p] = "L183" THEN fetch_retry_sleep ELSE 0]
    /\ UNCHANGED <<argv, TEST_MODE, WECHAT_WEBHOOK, STATUS_FILE, now, content, hist,
                   deliveries, restarts, elapsed>>

\* lines 187-190 and 197-199 in instance p
InstanceSend(p) ==
    /\ pc[p] = "L187"
    /\ content' = [content EXCEPT ![p] = numbered(stocks[p].list)]
    /\ \E outcome \in PostOutcomes :
          LET success == webhook_configured(WECHAT_WEBHOOK) /\ send_result(outcome)
          IN  /\ pc' = [pc EXCEPT ![p] = after_send(success)]
              /\ calls' = [calls EXCEPT ![p] =
                              Append(@, <<"send_wechat_message", Bool(success)>>)]
              /\ sleep_seconds' = [sleep_seconds EXCEPT ![p] =
                                      IF success THEN 0 ELSE push_retry_sleep]
              /\ deliveries' =
                    IF success
                      THEN Append(deliveries,
                                  [date |-> strftime_date(now), st |-> "pending", by |-> p])
                      ELSE deliveries
    /\ UNCHANGED <<argv, TEST_MODE, WECHAT_WEBHOOK, STATUS_FILE, now, stocks, hist,
                   restarts, elapsed>>

\* lines 191 and 68 in instance p: open(STATUS_FILE, 'w') empties the file
InstanceOpenStatusFile(p) ==
    /\ pc[p] = "L191"
    /\ STATUS_FILE' = [exists |-> TRUE, data |-> <<>>]
    /\ pc' = [pc EXCEPT ![p] = "L69"]
    /\ UNCHANGED <<argv, TEST_MODE, WECHAT_WEBHOOK, now, stocks, content, sleep_seconds,
                   calls, hist, deliveries, restarts, elapsed>>

\* lines 69-72 and 192-196 in instance p: the text is written from the start
\* of the file
InstanceWriteStatus(p) ==
    /\ pc[p] = "L69"
    /\ STATUS_FILE' = write_status(STATUS_FILE, now)
    /\ calls' = [calls EXCEPT ![p] = Append(@, <<"update_push_status", "None">>)]
    /\ deliveries' = [i \in 1..Len(deliveries) |->
                         IF deliveries[i].by = p
                           THEN [deliveries[i] EXCEPT !.st = "recorded"]
                           ELSE deliveries[i]]
    /\ sleep_seconds' = [sleep_seconds EXCEPT ![p] = until_next_check(now)]
    /\ pc' = [pc EXCEPT ![p] = "L196"]
    /\ UNCHANGED <<argv, TEST_MODE, WECHAT_WEBHOOK, now, stocks, content, hist,
                   restarts, elapsed>>

NextInstances ==
    \E p \in Instances :
        \/ InstanceGuards(p)
        \/ InstanceCrawl(p)
        \/ InstanceSend(p)
        \/ InstanceOpenStatusFile(p)
        \/ InstanceWriteStatus(p)

SpecInstances == InitInstances /\ [][NextInstances]_vars

\* the instances between a ledger test that said not pushed and the end of
\* their ledger write: a fetch, a send or a ledger write is theirs to make
InFlight == {p \in Instances : pc[p] \in {"L180", "L187", "L191", "L69"}}
SentBy(p) == {i \in 1..Len(deliveries) : deliveries[i].by = p}
Tested(p) == called(calls[p], "has_pushed_today")

\* C19: update_push_status and has_pushed_today do not exclude each other
\* between instances.  An instance fetches and sends only when, at the time of
\* its own ledger test, no delivery was recorded or a write was in progress,
\* whatever the others have sent since; an instance whose test was made after
\* a record, with no write in progress, goes to the already-pushed sleep.  So
\* a date can have one delivery of each instance, and no more.  With one
\* instance at most one is in flight and there is at most one delivery.
C19_InstancesRace ==
    /\ \A p \in Running :
          /\ p \in InFlight \/ SentBy(p) # {}
                => hist[p].recorded = 0 \/ hist[p].writing
          /\ Tested(p) /\ hist[p].recorded > 0 /\ ~hist[p].writing => pc[p] = "L152"
          /\ Cardinality(SentBy(p)) <= 1
    /\ Len(deliveries) <= Cardinality(Running)
    /\ Cardinality(InFlight) <= Cardinality(Running)
    /\ Len(STATUS_FILE.data) <= 1
    /\ Cardinality(Running) = 1 =>
          /\ Cardinality(InFlight) <= 1
          /\ Len(deliveries) <= 1
          /\ \A p \in Running : ~hist[p].writing

\* C19 witness: with the test mode off, two instances have each delivered and
\* recorded on the same date.
C19_Witness ==
    /\ ~TEST_MODE
    /\ Len(deliveries) = 2
    /\ deliveries[1].date = deliveries[2].date
    /\ deliveries[1].by # deliveries[2].by
    /\ \A i \in 1..2 : deliveries[i].st = "recorded"

====
